---- MODULE Spec2Model ----
(***************************************************************************)
(* Client-side watch transport of headlamp's frontend.                     *)
(*                                                                         *)
(*   Spec        WebSocketManager (lib/k8s/api/v2/webSocket.ts): one       *)
(*               shared socket, the listener registry, message dispatch,   *)
(*               COMPLETE handling, reconnection.                          *)
(*   SpecStream  stream / connectStream (lib/k8s/apiProxy.ts): one         *)
(*               retrying watch stream.                                    *)
(*   SpecResults streamResults (lib/k8s/apiProxy.ts): the list fetch, the  *)
(*               watch stream it opens, the collection it keeps.           *)
(*   SpecResult  streamResult (lib/k8s/apiProxy.ts): the GET of one named  *)
(*               object and the watch stream of it.                        *)
(*   SpecHook    useWebSocket (lib/k8s/api/v2/webSocket.ts): the manager  *)
(*               driven by effects of the hook and their cleanups.         *)
(*   SpecKey     createKey (lib/k8s/api/v2/webSocket.ts) on two triples.   *)
(*   SpecRouter  repeatStreamFunc and repeatFactoryMethod                  *)
(*               (lib/k8s/apiProxy.ts): one list/get call and one          *)
(*               post/patch/put/delete call over several endpoints.        *)
(*                                                                         *)
(* Strings the code takes apart (clusterId, path, query, keys) are         *)
(* sequences of one-character strings.  The browser runs one task at a     *)
(* time: every action is one task (an API call, a socket event, a timer),  *)
(* and the continuation of an `await` on an already settled promise is a   *)
(* microtask that runs before the next socket event or timer.              *)
(***************************************************************************)
EXTENDS Integers, Sequences, FiniteSets, TLC

\* ---- bounds ----
MaxCalls == 2       \* subscribe calls made over a run
MaxSockets == 3     \* sockets the manager creates over a run
MaxConns == 3       \* connections one retrying stream creates over a run
MaxEndpoints == 3   \* endpoints of a multiple-endpoint api factory
MaxKeyLen == 1      \* characters of a clusterId, of a path after its '/', of
                    \* a query, where createKey is studied on its own

\* ---- inputs ----
\* (clusterId, path, query) of the subscriptions; a cluster name may hold ':'
T1 == [clusterId |-> <<"a">>, path |-> <<"/">>, query |-> <<>>]
T2 == [clusterId |-> <<"a", ":", "b">>, path |-> <<"/">>, query |-> <<"w">>]
Triples == {T1, T2}
NoTriple == [clusterId |-> <<>>, path |-> <<>>, query |-> <<>>]

CallIds == 1..MaxCalls
SockIds == 1..MaxSockets

VARIABLES
  \* WebSocketManager
  socket,          \* this.socket: 0 is null, else a socket id
  connecting,      \* this.connecting
  listeners,       \* this.listeners: key -> callbacks in insertion order
  completedPaths,  \* this.completedPaths
  \* browser
  rs,              \* readyState of every socket the manager created
  requested,       \* per open socket: the triples REQUESTed from the server
  timers,          \* pending setTimeout(() => this.connect(), 1000)
  microtasks,      \* subscribe calls whose await continuation is queued
  calls,           \* the subscribe calls: position, arguments, result
  \* observation of the last step
  obs,
  gated,           \* keys with a COMPLETE received and not since removed
  \* retrying stream (apiProxy.ts)
  isCancelled,     \* stream: isCancelled
  connection,      \* stream: connection, an index into conns (0: undefined)
  conns,           \* every connectStream() made: its isClosing and its socket
  streamTimers,    \* pending setTimeout(connect, 3000)
  streamArgs,      \* the StreamArgs stream() was called with
  streamObs,       \* observation of the last step
  \* streamResults (apiProxy.ts)
  runPc,           \* position of run(): "await", then "watching", "failed"
                   \* (request rejected), "threw" (cb threw), "returned"
  resultsCancelled,\* streamResults: isCancelled
  results,         \* streamResults: results, uid -> stored object
  watchUrl,        \* the resourceVersion of the watchUrl (<<>>: none made)
  resObs,          \* observation of the last step
  \* repeatStreamFunc / repeatFactoryMethod (apiProxy.ts)
  apiEndpoints,    \* apiEndpoints.length
  errCbGiven,      \* repeatStreamFunc: whether errCb was passed
  endpointIndex,   \* repeatStreamFunc: endpointIndex
  routerCancelled, \* repeatStreamFunc: isCancelled
  streamCancel,    \* repeatStreamFunc: streamCancel, the endpoint whose cancel
                   \* function it holds (0: the initial () => {})
  cands,           \* the reconciler started on each endpoint
  routerObs,       \* observation of the last step
  fmIndex,         \* repeatFactoryMethod: i, the endpoint awaited (from 1)
  fmOut,           \* repeatFactoryMethod: how the call ended, once it has
  \* useWebSocket (webSocket.ts)
  cleanedUp,       \* the subscribe calls whose effect has been cleaned up
  \* createKey (webSocket.ts)
  keyArgs,         \* two (clusterId, path, query) triples
  keyOut           \* the keys createKey made of them (<<>>: not called)

muxVars == <<socket, connecting, listeners, completedPaths, rs, requested,
             timers, microtasks, calls, obs, gated>>
streamVars == <<isCancelled, connection, conns, streamTimers, streamArgs,
                streamObs>>
resultsVars == <<runPc, resultsCancelled, results, watchUrl, resObs>>
routerVars == <<apiEndpoints, errCbGiven, endpointIndex, routerCancelled,
                streamCancel, cands, routerObs, fmIndex, fmOut>>
hookVars == <<cleanedUp>>
keyVars == <<keyArgs, keyOut>>
vars == <<muxVars, streamVars, resultsVars, routerVars, hookVars, keyVars>>
\* what an action of the manager, and of the stream, leaves alone
notMux == <<streamVars, resultsVars, routerVars, hookVars, keyVars>>
notStream == <<muxVars, resultsVars, routerVars, hookVars, keyVars>>

\* ------------------------------------------------------------------------
\* WebSocketManager
\* ------------------------------------------------------------------------

createKey(clusterId, path, query) ==
  clusterId \o <<":">> \o path \o <<":">> \o query

KeyOf(t) == createKey(t.clusterId, t.path, t.query)

\* key.split(':')[0]
RECURSIVE SplitFirst(_)
SplitFirst(s) ==
  IF s = <<>> \/ Head(s) = ":" THEN <<>>
  ELSE <<Head(s)>> \o SplitFirst(Tail(s))

Frame(type, clusterId, path, query) ==
  [type |-> type, clusterId |-> clusterId, path |-> path, query |-> query]

\* socket.send(frame) on socket s: the call, and the readyState it met
Send(s, frame) == [sock |-> s, state |-> rs[s], frame |-> frame]

Range(f) == {f[x] : x \in DOMAIN f}

\* Set.add: insertion order, no duplicates
SetAdd(seq, f) == IF f \in Range(seq) THEN seq ELSE Append(seq, f)

\* Set.delete
SetDelete(seq, f) == SelectSeq(seq, LAMBDA x : x # f)

NoObs == [op |-> "init", call |-> 0, key |-> <<>>, frame |-> "",
          sent |-> <<>>, closed |-> 0, delivered |-> <<>>, created |-> 0,
          removed |-> FALSE]

IsOpen(s) == s # 0 /\ rs[s] = "OPEN"

FreeSocks == {s \in SockIds : rs[s] = "NONE"}
NewSock == CHOOSE s \in FreeSocks : \A r \in FreeSocks : s <= r

\* sockets created and not closed: connecting or open
Live == {s \in SockIds : rs[s] \in {"CONNECTING", "OPEN"}}

\* the branch of connect() a caller takes: the open socket, the wait for the
\* attempt in flight, or a new WebSocket
ConnectBranch ==
  IF IsOpen(socket) THEN "open"
  ELSE IF connecting THEN "poll"
  ELSE "new"

MuxInit ==
  /\ socket = 0
  /\ connecting = FALSE
  /\ listeners = <<>>
  /\ completedPaths = {}
  /\ rs = [s \in SockIds |-> "NONE"]
  /\ requested = [s \in SockIds |-> {}]
  /\ timers = 0
  /\ microtasks = <<>>
  /\ calls = [i \in CallIds |->
               [pc |-> "idle", t |-> NoTriple, sock |-> 0, reqs |-> 0,
                unsub |-> FALSE]]
  /\ obs = NoObs
  /\ gated = {}

NoStreamObs == [op |-> "none", cb |-> FALSE, fail |-> FALSE, opened |-> FALSE]

\* no stream has been made
StreamIdle ==
  /\ isCancelled = FALSE
  /\ connection = 0
  /\ conns = <<>>
  /\ streamTimers = 0
  /\ streamArgs = [failCb |-> FALSE, reconnectOnFailure |-> "unset",
                   isJson |-> FALSE]
  /\ streamObs = NoStreamObs

\* an event of the watch stream, and the one that stands for no event
NoEvent == [type |-> "", uid |-> "", resourceVersion |-> <<>>]

\* an object passed to a callback, and the one that stands for none
NoItem == [uid |-> "", resourceVersion |-> <<>>]

NoResObs == [op |-> "none", cb |-> FALSE, err |-> FALSE, ev |-> NoEvent,
             marker |-> <<>>, item |-> NoItem]

\* no streamResults() call has been made
ResultsIdle ==
  /\ runPc = "idle"
  /\ resultsCancelled = FALSE
  /\ results = <<>>
  /\ watchUrl = <<>>
  /\ resObs = NoResObs

EndpointIds == 1..MaxEndpoints

\* a reconciler that was not started
NoCand == [pc |-> "idle", isCancelled |-> FALSE, sock |-> "none",
           timer |-> FALSE]

NoRouterObs == [op |-> "none", cb |-> 0, from |-> 0, started |-> 0,
                err |-> FALSE, status |-> 0, handle |-> 0]

\* the call of repeatFactoryMethod is pending
Pending == [ended |-> FALSE, ok |-> FALSE, status |-> 0, by |-> 0]

\* no call of a multiple-endpoint api has been made
RouterIdle ==
  /\ apiEndpoints = 1
  /\ errCbGiven = FALSE
  /\ endpointIndex = 0
  /\ routerCancelled = FALSE
  /\ streamCancel = 0
  /\ cands = [k \in EndpointIds |-> NoCand]
  /\ routerObs = NoRouterObs
  /\ fmIndex = 0
  /\ fmOut = Pending

\* no effect of useWebSocket has been cleaned up
HookIdle == cleanedUp = {}

\* createKey is not under study
KeyIdle == keyArgs = <<NoTriple, NoTriple>> /\ keyOut = <<>>

Init ==
  MuxInit /\ StreamIdle /\ ResultsIdle /\ RouterIdle /\ HookIdle /\ KeyIdle

\* this.listeners after subscribe() has added the callback of call i under key
Register(key, i) ==
  LET old == IF key \in DOMAIN listeners THEN listeners[key] ELSE <<>>
  IN [k \in DOMAIN listeners \cup {key} |->
        IF k = key THEN SetAdd(old, i) ELSE listeners[k]]

\* subscribe() up to its await: register the callback, call connect().
\* The onMessage of call i is a function of its own (useWebSocket passes a
\* new closure on every call), named i in the registry.
subscribe(i, t) ==
  LET br == ConnectBranch IN
  /\ calls[i].pc = "idle"
  /\ \A j \in CallIds : j < i => calls[j].pc # "idle"
  /\ br = "new" => FreeSocks # {}
  /\ listeners' = Register(KeyOf(t), i)
  /\ IF br = "open"
       THEN /\ calls' = [calls EXCEPT ![i] = [@ EXCEPT !.pc = "fast", !.t = t,
                                                !.sock = socket]]
            /\ microtasks' = Append(microtasks, i)
            /\ UNCHANGED <<connecting, rs>>
       ELSE IF br = "poll"
       THEN /\ calls' = [calls EXCEPT ![i] = [@ EXCEPT !.pc = "poll", !.t = t]]
            /\ UNCHANGED <<connecting, rs, microtasks>>
       ELSE /\ calls' = [calls EXCEPT ![i] = [@ EXCEPT !.pc = "opening",
                                                !.t = t, !.sock = NewSock]]
            /\ connecting' = TRUE
            /\ rs' = [rs EXCEPT ![NewSock] = "CONNECTING"]
            /\ UNCHANGED microtasks
  /\ obs' = [NoObs EXCEPT !.op = "subscribe", !.call = i, !.key = KeyOf(t),
                          !.created = IF br = "new" THEN NewSock ELSE 0]
  /\ UNCHANGED <<socket, completedPaths, requested, timers, gated>>
  /\ UNCHANGED notMux

\* the frame subscribe() sends for call i
RequestOf(i) ==
  Frame("REQUEST", calls[i].t.clusterId, calls[i].t.path, calls[i].t.query)

\* mutant of RequestFrames: no REQUEST for a key that has other subscribers
RequestFramesOncePerKey(i) ==
  IF Len(listeners[KeyOf(calls[i].t)]) > 1 THEN <<>> ELSE <<RequestOf(i)>>

\* mutant of RequestFrames: the REQUEST goes out twice
RequestFramesTwice(i) == <<RequestOf(i), RequestOf(i)>>

\* the frames the rest of subscribe() sends on the socket connect() gave it
RequestFrames(i) == <<RequestOf(i)>>

\* the rest of subscribe() once connect() has resolved with socket s, which
\* is in readyState st: socket.send(REQUEST), return the unsubscribe function
Resumed(i, s, st) ==
  LET out == RequestFrames(i) IN
  /\ calls' = [calls EXCEPT ![i] = [@ EXCEPT !.pc = "done", !.sock = 0,
                                          !.reqs = @ + Len(out)]]
  /\ requested' = IF st = "OPEN" /\ out # <<>>
                    THEN [requested EXCEPT ![s] = @ \cup {calls[i].t}]
                    ELSE requested
  /\ obs' = [NoObs EXCEPT !.op = "request", !.call = i,
               !.key = KeyOf(calls[i].t),
               !.sent = [n \in DOMAIN out |->
                           [sock |-> s, state |-> st, frame |-> out[n]]]]

\* the continuation of a subscribe() whose connect() found the socket open
subscribeResume(i) ==
  /\ microtasks # <<>>
  /\ i = Head(microtasks)
  /\ calls[i].pc = "fast"
  /\ microtasks' = Tail(microtasks)
  /\ Resumed(i, calls[i].sock, rs[calls[i].sock])
  /\ UNCHANGED <<socket, connecting, listeners, completedPaths, rs, timers,
                 gated>>
  /\ UNCHANGED notMux

\* mutant of handleWebSocketClose: the reconnect is scheduled whatever the
\* registry holds
handleWebSocketCloseAlwaysRetries ==
  /\ socket' = 0
  /\ connecting' = FALSE
  /\ timers' = timers + 1

\* handleWebSocketClose(): the values it leaves in socket, connecting, timers
handleWebSocketClose ==
  /\ socket' = 0
  /\ connecting' = FALSE
  /\ timers' = IF DOMAIN listeners # {} THEN timers + 1 ELSE timers

\* socket.onopen of socket s, and the subscribe call that created s going on
onopen(s) ==
  LET waiting == {i \in CallIds : calls[i].pc = "opening" /\ calls[i].sock = s}
  IN
  /\ microtasks = <<>>
  /\ rs[s] = "CONNECTING"
  /\ rs' = [rs EXCEPT ![s] = "OPEN"]
  /\ socket' = s
  /\ connecting' = FALSE
  /\ IF waiting = {}
       THEN /\ UNCHANGED <<calls, requested>>
            /\ obs' = [NoObs EXCEPT !.op = "event"]
       ELSE Resumed(CHOOSE j \in waiting : TRUE, s, "OPEN")
  /\ UNCHANGED <<listeners, completedPaths, timers, microtasks, gated>>
  /\ UNCHANGED notMux

\* the connection attempt of socket s fails: socket.onerror, then
\* socket.onclose in the same task
onerror(s) ==
  /\ microtasks = <<>>
  /\ rs[s] = "CONNECTING"
  /\ rs' = [rs EXCEPT ![s] = "CLOSED"]
  /\ calls' = [i \in CallIds |->
                 IF calls[i].pc = "opening" /\ calls[i].sock = s
                   THEN [calls[i] EXCEPT !.pc = "rejected", !.sock = 0]
                   ELSE calls[i]]
  /\ handleWebSocketClose
  /\ obs' = [NoObs EXCEPT !.op = "event"]
  /\ UNCHANGED <<listeners, completedPaths, requested, microtasks, gated>>
  /\ UNCHANGED notMux

\* the server starts the closing handshake of an open socket
serverClosing(s) ==
  /\ microtasks = <<>>
  /\ rs[s] = "OPEN"
  /\ rs' = [rs EXCEPT ![s] = "CLOSING"]
  /\ requested' = [requested EXCEPT ![s] = {}]
  /\ obs' = [NoObs EXCEPT !.op = "event"]
  /\ UNCHANGED <<socket, connecting, listeners, completedPaths, timers,
                 microtasks, calls, gated>>
  /\ UNCHANGED notMux

\* socket.onclose of a socket that was open (dropped, or closed by close())
onclose(s) ==
  /\ microtasks = <<>>
  /\ rs[s] \in {"OPEN", "CLOSING"}
  /\ rs' = [rs EXCEPT ![s] = "CLOSED"]
  /\ requested' = [requested EXCEPT ![s] = {}]
  /\ handleWebSocketClose
  /\ obs' = [NoObs EXCEPT !.op = "event"]
  /\ UNCHANGED <<listeners, completedPaths, microtasks, calls, gated>>
  /\ UNCHANGED notMux

\* a tick of the setInterval of connect() that finds the socket open
checkConnection(i) ==
  /\ microtasks = <<>>
  /\ calls[i].pc = "poll"
  /\ IsOpen(socket)
  /\ Resumed(i, socket, rs[socket])
  /\ UNCHANGED <<socket, connecting, listeners, completedPaths, rs, timers,
                 microtasks, gated>>
  /\ UNCHANGED notMux

\* the reconnect timer of handleWebSocketClose fires: this.connect()
reconnect ==
  /\ microtasks = <<>>
  /\ timers > 0
  /\ ConnectBranch = "new" => FreeSocks # {}
  /\ timers' = timers - 1
  /\ IF ConnectBranch = "new"
       THEN /\ connecting' = TRUE
            /\ rs' = [rs EXCEPT ![NewSock] = "CONNECTING"]
            /\ obs' = [NoObs EXCEPT !.op = "event", !.created = NewSock]
       ELSE /\ UNCHANGED <<connecting, rs>>
            /\ obs' = [NoObs EXCEPT !.op = "event"]
  /\ UNCHANGED <<socket, listeners, completedPaths, requested, microtasks,
                 calls, gated>>
  /\ UNCHANGED notMux

\* ---- frames the server pushes ----
\* "malformed": not JSON; "nokey": no clusterId or no path; a frame of type
\* COMPLETE; a DATA frame (any other type) whose nested data is absent or
\* parses ("ok"), or does not parse ("bad")
InFrames ==
  {[kind |-> k, t |-> NoTriple, type |-> "", payload |-> ""] :
     k \in {"malformed", "nokey"}}
  \cup {[kind |-> "frame", t |-> t, type |-> "COMPLETE", payload |-> "ok"] :
          t \in Triples}
  \cup {[kind |-> "frame", t |-> t, type |-> "DATA", payload |-> p] :
          t \in Triples, p \in {"ok", "bad"}}

\* the frames handleCompletionMessage(data, key) sends
CompletionFrames(fr) ==
  IF IsOpen(socket)
    THEN <<Send(socket, Frame("CLOSE", fr.t.clusterId, fr.t.path, fr.t.query))>>
    ELSE <<>>

\* handleCompletionMessage(data, key): mark the key, echo CLOSE if open
handleCompletionMessage(fr, key) ==
  /\ completedPaths' = completedPaths \cup {key}
  /\ obs' = [NoObs EXCEPT !.op = "message", !.key = key, !.frame = "COMPLETE",
               !.sent = CompletionFrames(fr)]

\* mutant of Completed: the completed-path check is missing
CompletedNever(key) == FALSE

\* if (this.completedPaths.has(key)) return
Completed(key) == key \in completedPaths

\* listeners.get(key)?.forEach(listener => listener(update)): the callbacks
\* invoked when the n-th one throws, which ends the forEach (n = 0: none
\* throws, or the last one does)
Dispatch(key, n) ==
  LET ls == IF key \in DOMAIN listeners THEN listeners[key] ELSE <<>>
  IN IF n = 0 THEN ls ELSE SubSeq(ls, 1, n)

\* the callbacks of key whose throw would cut the forEach short
Listening(key) ==
  IF key \in DOMAIN listeners THEN Len(listeners[key]) - 1 ELSE 0

\* socket.onmessage of socket s: handleWebSocketMessage(event); the server
\* pushes frames only for what was requested on s
handleWebSocketMessage(s, fr) ==
  LET key == KeyOf(fr.t) IN
  /\ microtasks = <<>>
  /\ rs[s] = "OPEN"
  /\ fr.kind = "frame" => fr.t \in requested[s]
  /\ IF fr.kind # "frame"
       THEN /\ obs' = [NoObs EXCEPT !.op = "message", !.frame = "ignored"]
            /\ UNCHANGED completedPaths
       ELSE IF fr.type = "COMPLETE"
       THEN handleCompletionMessage(fr, key)
       ELSE IF Completed(key) \/ fr.payload = "bad"
       THEN /\ obs' = [NoObs EXCEPT !.op = "message", !.key = key,
                         !.frame = IF fr.payload = "bad" THEN "BADDATA"
                                   ELSE "DATA"]
            /\ UNCHANGED completedPaths
       ELSE /\ \E n \in 0..Listening(key) :
                 obs' = [NoObs EXCEPT !.op = "message", !.key = key,
                           !.frame = "DATA", !.delivered = Dispatch(key, n)]
            /\ UNCHANGED completedPaths
  /\ gated' = IF fr.kind = "frame" /\ fr.type = "COMPLETE"
                THEN gated \cup {key} ELSE gated
  /\ UNCHANGED <<socket, connecting, listeners, rs, requested, timers,
                 microtasks, calls>>
  /\ UNCHANGED notMux

\* socket.close()
CloseState(st) == IF st \in {"CONNECTING", "OPEN"} THEN "CLOSING" ELSE st

\* mutant of LastListener: any unsubscribe counts as the last one of its key
LastListenerAlways(key, i) == key \in DOMAIN listeners

\* handleUnsubscribe: listeners.get(key)?.delete(onMessage) empties the set
LastListener(key, i) ==
  key \in DOMAIN listeners /\ SetDelete(listeners[key], i) = <<>>

\* mutant of Unregister: the emptied key stays in the registry
UnregisterKeepsKey(key, i) ==
  IF key \notin DOMAIN listeners THEN listeners
  ELSE [listeners EXCEPT ![key] = SetDelete(@, i)]

\* handleUnsubscribe: this.listeners once the callback of call i is deleted,
\* and the key with it if that was its last callback
Unregister(key, i) ==
  IF key \notin DOMAIN listeners THEN listeners
  ELSE IF LastListener(key, i)
    THEN [k \in DOMAIN listeners \ {key} |-> listeners[k]]
    ELSE [listeners EXCEPT ![key] = SetDelete(@, i)]

\* handleUnsubscribe: the CLOSE frame sent when the last callback went
UnsubscribeFrames(key, i) ==
  IF LastListener(key, i) /\ IsOpen(socket)
    THEN <<Send(socket, Frame("CLOSE", SplitFirst(key), calls[i].t.path,
                              calls[i].t.query))>>
    ELSE <<>>

\* handleUnsubscribe: if (this.listeners.size === 0 && this.socket)
DropSocket(after) == DOMAIN after = {} /\ socket # 0

\* handleUnsubscribe(key, onMessage, userId, path, query) with the arguments
\* of subscribe call i: what it does to the manager
Unsubscribe(i) ==
  LET key == KeyOf(calls[i].t)
      last == LastListener(key, i)
      drop == DropSocket(Unregister(key, i))
  IN
  /\ calls[i].pc = "done"
  /\ calls' = [calls EXCEPT ![i] = [@ EXCEPT !.unsub = TRUE]]
  /\ listeners' = Unregister(key, i)
  /\ completedPaths' = IF last THEN completedPaths \ {key} ELSE completedPaths
  /\ gated' = IF key \in DOMAIN listeners /\ key \notin DOMAIN listeners'
                THEN gated \ {key} ELSE gated
  /\ IF drop
       THEN /\ rs' = [rs EXCEPT ![socket] = CloseState(@)]
            /\ requested' = [requested EXCEPT ![socket] = {}]
            /\ socket' = 0
       ELSE UNCHANGED <<rs, socket, requested>>
  /\ obs' = [NoObs EXCEPT !.op = "unsubscribe", !.call = i, !.key = key,
               !.removed = last,
               !.closed = IF drop THEN socket ELSE 0,
               !.sent = UnsubscribeFrames(key, i)]
  /\ UNCHANGED <<connecting, timers, microtasks>>

\* the unsubscribe function subscribe call i returned is invoked
handleUnsubscribe(i) ==
  /\ Unsubscribe(i)
  /\ UNCHANGED notMux

MuxNext ==
  \/ \E i \in CallIds, t \in Triples : subscribe(i, t)
  \/ \E i \in CallIds : subscribeResume(i)
  \/ \E i \in CallIds : checkConnection(i)
  \/ \E i \in CallIds : handleUnsubscribe(i)
  \/ \E s \in SockIds : onopen(s)
  \/ \E s \in SockIds : onerror(s)
  \/ \E s \in SockIds : serverClosing(s)
  \/ \E s \in SockIds : onclose(s)
  \/ \E s \in SockIds, fr \in InFrames : handleWebSocketMessage(s, fr)
  \/ reconnect

Spec == Init /\ [][MuxNext]_vars

\* Spec with the scheduling of the browser: a connection attempt ends, with
\* an open or an error event; a timer that is set fires; a queued
\* continuation runs; the setInterval of connect() keeps ticking
SpecFair ==
  /\ Spec
  /\ WF_vars(\E s \in SockIds : onopen(s) \/ onerror(s))
  /\ WF_vars(reconnect)
  /\ WF_vars(\E i \in CallIds : subscribeResume(i))
  /\ WF_vars(\E i \in CallIds : checkConnection(i))

\* ------------------------------------------------------------------------
\* useWebSocket
\* ------------------------------------------------------------------------
\* Every subscribe call is made by an effect of the hook, which alone holds
\* the unsubscribe function: the then-callback stores it in the effect's
\* variable cleanup in the microtask that follows the resolution of
\* subscribe(), so cleanup is set exactly when the call is "done".

\* the function the effect returns runs, once: cleanup?.()
effectCleanup(i) ==
  /\ calls[i].pc # "idle"
  /\ microtasks = <<>>
  /\ i \notin cleanedUp
  /\ cleanedUp' = cleanedUp \cup {i}
  /\ IF calls[i].pc = "done"
       THEN Unsubscribe(i)
       ELSE UNCHANGED muxVars
  /\ UNCHANGED <<streamVars, resultsVars, routerVars, keyVars>>

HookNext ==
  \/ \E i \in CallIds, t \in Triples : subscribe(i, t)
  \/ \E i \in CallIds : subscribeResume(i)
  \/ \E i \in CallIds : checkConnection(i)
  \/ \E i \in CallIds : effectCleanup(i)
  \/ \E s \in SockIds : onopen(s)
  \/ \E s \in SockIds : onerror(s)
  \/ \E s \in SockIds : serverClosing(s)
  \/ \E s \in SockIds : onclose(s)
  \/ \E s \in SockIds, fr \in InFrames : handleWebSocketMessage(s, fr)
  \/ reconnect

SpecHook == Init /\ [][HookNext]_vars

\* SpecHook with the scheduling of the browser, as in SpecFair
SpecHookFair ==
  /\ SpecHook
  /\ WF_vars(\E s \in SockIds : onopen(s) \/ onerror(s))
  /\ WF_vars(reconnect)
  /\ WF_vars(\E i \in CallIds : subscribeResume(i))
  /\ WF_vars(\E i \in CallIds : checkConnection(i))

\* ------------------------------------------------------------------------
\* createKey on its own
\* ------------------------------------------------------------------------

\* the characters that matter to createKey: the separator and any other
KeyChars == {"a", ":"}

KeyStrings == UNION {[1..n -> KeyChars] : n \in 0..MaxKeyLen}

\* the arguments of subscribe(): a cluster name, the pathname of a URL
\* (which starts with '/') and its search part without the '?'
KeyTriples ==
  {[clusterId |-> c, path |-> <<"/">> \o p, query |-> q] :
     c \in KeyStrings, p \in KeyStrings, q \in KeyStrings}

KeyInit ==
  /\ keyArgs \in KeyTriples \X KeyTriples
  /\ keyOut = <<>>

\* subscribe() makes the key of each of the two triples
serialize ==
  /\ keyOut = <<>>
  /\ keyOut' = <<KeyOf(keyArgs[1]), KeyOf(keyArgs[2])>>
  /\ UNCHANGED keyArgs
  /\ UNCHANGED <<muxVars, streamVars, resultsVars, routerVars, hookVars>>

KeyNext == serialize

InitKey ==
  MuxInit /\ StreamIdle /\ ResultsIdle /\ RouterIdle /\ HookIdle /\ KeyInit

SpecKey == InitKey /\ [][KeyNext]_vars

\* ------------------------------------------------------------------------
\* stream / connectStream
\* ------------------------------------------------------------------------

\* const { ..., reconnectOnFailure = !failCb } = args
reconnectOnFailure ==
  IF streamArgs.reconnectOnFailure = "unset" THEN ~streamArgs.failCb
  ELSE streamArgs.reconnectOnFailure = "true"

\* connectStream(): a connection with its socket; new WebSocket() may throw,
\* which leaves socket null
connectStream(made) ==
  [isClosing |-> FALSE, sock |-> IF made THEN "CONNECTING" ELSE "null"]

\* stream.connect(): connection = connectStream(...)
connect(made) ==
  /\ conns' = Append(conns, connectStream(made))
  /\ connection' = Len(conns) + 1

\* the state stream(url, cb, args) returns in: connect() has run once
StreamInit ==
  /\ isCancelled = FALSE
  /\ streamTimers = 0
  /\ streamArgs \in [failCb : BOOLEAN,
                     reconnectOnFailure : {"unset", "true", "false"},
                     isJson : BOOLEAN]
  /\ \E made \in BOOLEAN :
       /\ conns = <<connectStream(made)>>
       /\ streamObs = [NoStreamObs EXCEPT !.op = "stream", !.opened = made]
  /\ connection = 1

\* the browser opens the socket of connection c
streamOpen(c) ==
  /\ conns[c].sock = "CONNECTING"
  /\ conns' = [conns EXCEPT ![c].sock = "OPEN"]
  /\ streamObs' = [NoStreamObs EXCEPT !.op = "open"]
  /\ UNCHANGED <<isCancelled, connection, streamTimers, streamArgs>>
  /\ UNCHANGED notStream

\* the server starts the closing handshake of the socket of connection c
streamClosing(c) ==
  /\ conns[c].sock = "OPEN"
  /\ conns' = [conns EXCEPT ![c].sock = "CLOSING"]
  /\ streamObs' = [NoStreamObs EXCEPT !.op = "closing"]
  /\ UNCHANGED <<isCancelled, connection, streamTimers, streamArgs>>
  /\ UNCHANGED notStream

\* connectStream.onMessage(body) of connection c; wellFormed: body.data parses
onMessage(c, wellFormed) ==
  /\ conns[c].sock = "OPEN"
  /\ streamObs' = [NoStreamObs EXCEPT !.op = "message",
                     !.cb = /\ ~conns[c].isClosing
                            /\ (streamArgs.isJson => wellFormed)]
  /\ UNCHANGED <<isCancelled, connection, conns, streamTimers, streamArgs>>
  /\ UNCHANGED notStream

\* stream.retryOnFail(): the number of timers it leaves pending
retryOnFail ==
  IF isCancelled THEN streamTimers
  ELSE IF reconnectOnFailure THEN streamTimers + 1
  ELSE streamTimers

\* stream.onFail()
onFail ==
  /\ streamTimers' = IF reconnectOnFailure THEN retryOnFail ELSE streamTimers
  /\ streamObs' = [NoStreamObs EXCEPT !.op = "close", !.fail = streamArgs.failCb]

\* the close event of the socket of connection c: connectStream.onClose()
onClose(c) ==
  /\ conns[c].sock \in {"CONNECTING", "OPEN", "CLOSING"}
  /\ IF conns[c].isClosing
       THEN /\ conns' = [conns EXCEPT ![c].sock = "CLOSED"]
            /\ streamObs' = [NoStreamObs EXCEPT !.op = "close"]
            /\ UNCHANGED streamTimers
       ELSE /\ conns' = [conns EXCEPT ![c].sock = "CLOSED", ![c].isClosing = TRUE]
            /\ onFail
  /\ UNCHANGED <<isCancelled, connection, streamArgs>>
  /\ UNCHANGED notStream

\* the timer of retryOnFail fires: connect()
streamTimer ==
  /\ streamTimers > 0
  /\ Len(conns) < MaxConns
  /\ streamTimers' = streamTimers - 1
  /\ \E made \in BOOLEAN :
       /\ connect(made)
       /\ streamObs' = [NoStreamObs EXCEPT !.op = "connect", !.opened = made]
  /\ UNCHANGED <<isCancelled, streamArgs>>
  /\ UNCHANGED notStream

\* connectStream.close() of connection c: the connection it leaves
close(c) ==
  [isClosing |-> TRUE,
   sock |-> IF conns[c].sock = "null" THEN "null" ELSE CloseState(conns[c].sock)]

\* stream.cancel()
cancel ==
  /\ conns' = IF connection # 0 THEN [conns EXCEPT ![connection] = close(connection)]
              ELSE conns
  /\ isCancelled' = TRUE
  /\ streamObs' = [NoStreamObs EXCEPT !.op = "cancel"]
  /\ UNCHANGED <<connection, streamTimers, streamArgs>>
  /\ UNCHANGED notStream

StreamNext ==
  \/ \E c \in DOMAIN conns : streamOpen(c)
  \/ \E c \in DOMAIN conns : streamClosing(c)
  \/ \E c \in DOMAIN conns, wellFormed \in BOOLEAN : onMessage(c, wellFormed)
  \/ \E c \in DOMAIN conns : onClose(c)
  \/ streamTimer
  \/ cancel

InitStream ==
  MuxInit /\ StreamInit /\ ResultsIdle /\ RouterIdle /\ HookIdle /\ KeyIdle

SpecStream == InitStream /\ [][StreamNext]_vars

\* a timer that is set fires
SpecStreamFair == SpecStream /\ WF_vars(streamTimer)

\* ------------------------------------------------------------------------
\* streamResults
\* ------------------------------------------------------------------------

Uids == {"u1", "u2"}

\* metadata.resourceVersion of an object: absent (<<>>), "9", "10", "x"
Versions == {<<>>, <<"9">>, <<"1", "0">>, <<"x">>}

\* metadata.resourceVersion of a list response
Markers == {<<"9">>, <<"1", "0">>}

TypeNames == {"ADDED", "MODIFIED", "DELETED", "ERROR", "BOOKMARK"}

\* the events a watch stream carries
Events == [type : TypeNames, uid : Uids, resourceVersion : Versions]

\* the items of a list response: uid -> resourceVersion
Snapshots == UNION {[U -> Versions] : U \in SUBSET Uids}

NaN == -1

Digit(c) ==
  CASE c = "0" -> 0 [] c = "1" -> 1 [] c = "2" -> 2 [] c = "3" -> 3
    [] c = "4" -> 4 [] c = "5" -> 5 [] c = "6" -> 6 [] c = "7" -> 7
    [] c = "8" -> 8 [] c = "9" -> 9 [] OTHER -> NaN

RECURSIVE ParseDigits(_, _)
ParseDigits(s, acc) ==
  IF s = <<>> \/ Digit(Head(s)) = NaN THEN acc
  ELSE ParseDigits(Tail(s), 10 * acc + Digit(Head(s)))

\* parseInt(s, 10): the number the leading digits of s spell, NaN if none
parseInt(s) ==
  IF s = <<>> \/ Digit(Head(s)) = NaN THEN NaN ELSE ParseDigits(s, 0)

\* a < b of two numbers: false when either is NaN
Less(a, b) == a # NaN /\ b # NaN /\ a < b

\* results[uid] = item
Put(uid, item) ==
  [u \in DOMAIN results \cup {uid} |-> IF u = uid THEN item ELSE results[u]]

\* add(items, kind): results once every item of the list is stored by uid
add(items) ==
  [u \in DOMAIN items |-> [resourceVersion |-> items[u], actionType |-> "none"]]

\* the object of an event once update() has set its actionType
Object(ev) == [resourceVersion |-> ev.resourceVersion, actionType |-> ev.type]

\* mutant of Modified: an object that is not stored is not inserted
ModifiedOnlyStored(ev) ==
  IF ev.uid \in DOMAIN results
       /\ results[ev.uid].resourceVersion # <<>> /\ ev.resourceVersion # <<>>
       /\ Less(parseInt(results[ev.uid].resourceVersion),
               parseInt(ev.resourceVersion))
    THEN Put(ev.uid, Object(ev))
    ELSE results

\* mutant of Modified: the object is stored whatever its version
ModifiedAlways(ev) == Put(ev.uid, Object(ev))

\* update(): case 'MODIFIED'
Modified(ev) ==
  IF ev.uid \in DOMAIN results
    THEN IF results[ev.uid].resourceVersion = <<>> \/ ev.resourceVersion = <<>>
           THEN results
         ELSE IF Less(parseInt(results[ev.uid].resourceVersion),
                      parseInt(ev.resourceVersion))
           THEN Put(ev.uid, Object(ev))
         ELSE results
    ELSE Put(ev.uid, Object(ev))

\* mutant of update: an event of another type removes the object
updateDropsOnError(ev) ==
  CASE ev.type = "ADDED" -> Put(ev.uid, Object(ev))
    [] ev.type = "MODIFIED" -> Modified(ev)
    [] OTHER -> [u \in DOMAIN results \ {ev.uid} |-> results[u]]

\* update({type, object}): results after the switch
update(ev) ==
  CASE ev.type = "ADDED" -> Put(ev.uid, Object(ev))
    [] ev.type = "MODIFIED" -> Modified(ev)
    [] ev.type = "DELETED" -> [u \in DOMAIN results \ {ev.uid} |-> results[u]]
    [] OTHER -> results

\* mutant of WatchFrom: the watch starts from version 0
WatchFromZero(marker) == <<"0">>

\* the resourceVersion of watchUrl: metadata.resourceVersion of the list
WatchFrom(marker) == marker

\* the StreamArgs streamResults passes to stream()
ResultsStreamArgs ==
  [failCb |-> FALSE, reconnectOnFailure |-> "unset", isJson |-> TRUE]

\* the state streamResults(url, cb, errCb, queryParams) returns in: run() has
\* issued the request and waits for it
ResultsInit ==
  /\ runPc = "await"
  /\ resultsCancelled = FALSE
  /\ results = <<>>
  /\ watchUrl = <<>>
  /\ resObs = [NoResObs EXCEPT !.op = "request"]

\* mutant of runFetched: isCancelled is not tested
runFetchedAnyway(items, marker, cbThrows) ==
  /\ runPc = "await"
  /\ runPc' = IF resultsCancelled THEN "returned" ELSE "watching"
  /\ results' = add(items)
  /\ watchUrl' = WatchFrom(marker)
  /\ resObs' = [NoResObs EXCEPT !.op = "snapshot", !.cb = TRUE,
                                !.marker = marker]
  /\ streamArgs' = ResultsStreamArgs
  /\ \E made \in BOOLEAN :
       /\ connect(made)
       /\ streamObs' = [NoStreamObs EXCEPT !.op = "stream", !.opened = made]
  /\ UNCHANGED <<isCancelled, streamTimers, resultsCancelled>>
  /\ UNCHANGED <<muxVars, routerVars, hookVars, keyVars>>

\* the request of run() resolves with a list; cbThrows: the caller's cb throws
runFetched(items, marker, cbThrows) ==
  /\ runPc = "await"
  /\ IF resultsCancelled
       THEN /\ runPc' = "returned"
            /\ resObs' = [NoResObs EXCEPT !.op = "snapshot"]
            /\ UNCHANGED <<results, watchUrl, streamVars>>
       ELSE /\ results' = add(items)
            /\ IF cbThrows
                 THEN /\ runPc' = "threw"
                      /\ resObs' = [NoResObs EXCEPT !.op = "snapshot",
                                      !.cb = TRUE, !.err = TRUE]
                      /\ UNCHANGED <<watchUrl, streamVars>>
                 ELSE /\ runPc' = "watching"
                      /\ watchUrl' = WatchFrom(marker)
                      /\ resObs' = [NoResObs EXCEPT !.op = "snapshot",
                                      !.cb = TRUE, !.marker = marker]
                      /\ streamArgs' = ResultsStreamArgs
                      /\ \E made \in BOOLEAN :
                           /\ connect(made)
                           /\ streamObs' = [NoStreamObs EXCEPT !.op = "stream",
                                              !.opened = made]
                      /\ UNCHANGED <<isCancelled, streamTimers>>
  /\ UNCHANGED resultsCancelled
  /\ UNCHANGED <<muxVars, routerVars, hookVars, keyVars>>

\* mutant of runFailed: the request is issued again
runFailedRetries ==
  /\ runPc = "await"
  /\ runPc' = "await"
  /\ resObs' = [NoResObs EXCEPT !.op = "request", !.err = TRUE]
  /\ UNCHANGED <<resultsCancelled, results, watchUrl, streamVars>>
  /\ UNCHANGED <<muxVars, routerVars, hookVars, keyVars>>

\* the request of run() rejects: errCb(err, cancel)
runFailed ==
  /\ runPc = "await"
  /\ runPc' = "failed"
  /\ resObs' = [NoResObs EXCEPT !.op = "error", !.err = TRUE]
  /\ UNCHANGED <<resultsCancelled, results, watchUrl, streamVars>>
  /\ UNCHANGED <<muxVars, routerVars, hookVars, keyVars>>

\* a message on the socket of connection c of the watch stream:
\* connectStream.onMessage, which calls update() and push() unless the
\* connection is closing or the body is not JSON (ev = NoEvent)
streamUpdate(c, ev) ==
  LET called == ~conns[c].isClosing /\ ev # NoEvent IN
  /\ runPc = "watching"
  /\ conns[c].sock = "OPEN"
  /\ results' = IF called THEN update(ev) ELSE results
  /\ resObs' = IF called
                  THEN [NoResObs EXCEPT !.op = "update", !.cb = TRUE, !.ev = ev]
                  ELSE [NoResObs EXCEPT !.op = "dropped"]
  /\ streamObs' = [NoStreamObs EXCEPT !.op = "message", !.cb = called]
  /\ UNCHANGED <<runPc, resultsCancelled, watchUrl>>
  /\ UNCHANGED <<isCancelled, connection, conns, streamTimers, streamArgs>>
  /\ UNCHANGED <<muxVars, routerVars, hookVars, keyVars>>

\* the cancel function streamResults returned
resultsCancel ==
  /\ runPc # "idle"
  /\ resObs' = [NoResObs EXCEPT !.op = "cancel"]
  /\ IF resultsCancelled \/ connection = 0
       THEN UNCHANGED <<isCancelled, conns, streamObs>>
       ELSE /\ conns' = [conns EXCEPT ![connection] = close(connection)]
            /\ isCancelled' = TRUE
            /\ streamObs' = [NoStreamObs EXCEPT !.op = "cancel"]
  /\ resultsCancelled' = TRUE
  /\ UNCHANGED <<runPc, results, watchUrl, connection, streamTimers, streamArgs>>
  /\ UNCHANGED <<muxVars, routerVars, hookVars, keyVars>>

ResultsNext ==
  \/ \E items \in Snapshots, marker \in Markers, cbThrows \in BOOLEAN :
       runFetched(items, marker, cbThrows)
  \/ runFailed
  \/ \E c \in DOMAIN conns, ev \in Events \cup {NoEvent} : streamUpdate(c, ev)
  \/ resultsCancel
  \/ \E c \in DOMAIN conns : streamOpen(c)
  \/ \E c \in DOMAIN conns : streamClosing(c)
  \/ \E c \in DOMAIN conns : onClose(c)
  \/ streamTimer

InitResults ==
  MuxInit /\ StreamIdle /\ ResultsInit /\ RouterIdle /\ HookIdle /\ KeyIdle

SpecResults == InitResults /\ [][ResultsNext]_vars

\* ------------------------------------------------------------------------
\* streamResult
\* ------------------------------------------------------------------------

\* the objects a GET by name answers with
Items == [uid : Uids, resourceVersion : Versions]

\* mutant of ObjectOf: the callback gets the object without its version
ObjectOfStripped(ev) == [uid |-> ev.uid, resourceVersion |-> <<>>]

\* x => cb(x.object): the object of a watch event
ObjectOf(ev) == [uid |-> ev.uid, resourceVersion |-> ev.resourceVersion]

\* the request of streamResult.run() resolves with the object; cbThrows: the
\* caller's cb throws
getFetched(item, cbThrows) ==
  /\ runPc = "await"
  /\ IF resultsCancelled
       THEN /\ runPc' = "returned"
            /\ resObs' = [NoResObs EXCEPT !.op = "item"]
            /\ UNCHANGED streamVars
       ELSE IF cbThrows
       THEN /\ runPc' = "threw"
            /\ resObs' = [NoResObs EXCEPT !.op = "item", !.cb = TRUE,
                            !.err = TRUE, !.item = item]
            /\ UNCHANGED streamVars
       ELSE /\ runPc' = "watching"
            /\ resObs' = [NoResObs EXCEPT !.op = "item", !.cb = TRUE,
                            !.item = item]
            /\ streamArgs' = ResultsStreamArgs
            /\ \E made \in BOOLEAN :
                 /\ connect(made)
                 /\ streamObs' = [NoStreamObs EXCEPT !.op = "stream",
                                    !.opened = made]
            /\ UNCHANGED <<isCancelled, streamTimers>>
  /\ UNCHANGED <<resultsCancelled, results, watchUrl>>
  /\ UNCHANGED <<muxVars, routerVars, hookVars, keyVars>>

\* the request of streamResult.run() rejects: errCb(err, cancel)
getFailed == runFailed

\* a message on the socket of connection c of the watch stream of
\* streamResult: connectStream.onMessage, which calls cb(x.object) unless the
\* connection is closing or the body is not JSON (ev = NoEvent)
streamObject(c, ev) ==
  LET called == ~conns[c].isClosing /\ ev # NoEvent IN
  /\ runPc = "watching"
  /\ conns[c].sock = "OPEN"
  /\ resObs' = IF called
                  THEN [NoResObs EXCEPT !.op = "object", !.cb = TRUE, !.ev = ev,
                                       !.item = ObjectOf(ev)]
                  ELSE [NoResObs EXCEPT !.op = "dropped"]
  /\ streamObs' = [NoStreamObs EXCEPT !.op = "message", !.cb = called]
  /\ UNCHANGED <<runPc, resultsCancelled, results, watchUrl>>
  /\ UNCHANGED <<isCancelled, connection, conns, streamTimers, streamArgs>>
  /\ UNCHANGED <<muxVars, routerVars, hookVars, keyVars>>

\* the cancel function streamResult returned
resultCancel == resultsCancel

ResultNext ==
  \/ \E item \in Items, cbThrows \in BOOLEAN : getFetched(item, cbThrows)
  \/ getFailed
  \/ \E c \in DOMAIN conns, ev \in Events \cup {NoEvent} : streamObject(c, ev)
  \/ resultCancel
  \/ \E c \in DOMAIN conns : streamOpen(c)
  \/ \E c \in DOMAIN conns : streamClosing(c)
  \/ \E c \in DOMAIN conns : onClose(c)
  \/ streamTimer

\* the state streamResult(url, name, cb, errCb, queryParams) returns in: run()
\* has issued the request and waits for it
InitResult ==
  MuxInit /\ StreamIdle /\ ResultsInit /\ RouterIdle /\ HookIdle /\ KeyIdle

SpecResult == InitResult /\ [][ResultNext]_vars

\* ------------------------------------------------------------------------
\* repeatStreamFunc and repeatFactoryMethod (lib/k8s/apiProxy.ts)
\* ------------------------------------------------------------------------
\* multipleApiFactory routes list and get through repeatStreamFunc and
\* post, patch, put and delete through repeatFactoryMethod.  Endpoint k of
\* the model is apiEndpoints[k - 1]; endpointIndex counts the endpoints
\* started.  The reconciler of an endpoint is streamResults (or streamResult,
\* whose run and cancel have the same shape) with the caller's callback as cb
\* and the router's cancel function as errCb; its stream is kept as the state
\* of its socket and whether a reconnection timer is pending.
\*
\* "streamCancel = await runStreamFunc(endpointIndex++, ...)" is one step:
\* the endpoint's function starts its request and returns at once, and the
\* await resumes in a microtask, before the response of that request and
\* before any code of the caller can run.

\* the HTTP status of a request's error
ErrorStatuses == {404, 500}
\* what the caller's callback throws: nothing, an error without a status, an
\* error whose status is 404
Thrown == {"nothing", "plain", "notFound"}
StatusOf(thrown) == IF thrown = "notFound" THEN 404 ELSE 0

RouterObs(op, from) == [NoRouterObs EXCEPT !.op = op, !.from = from]

\* runStreamFunc always running the first endpoint
runStreamFuncFirstAgain(cs, n) == [cs EXCEPT ![1] = [NoCand EXCEPT !.pc = "await"]]

\* runStreamFunc: the reconciler of endpoint n starts and awaits its request
runStreamFunc(cs, n) == [cs EXCEPT ![n] = [NoCand EXCEPT !.pc = "await"]]

\* a cancel function that does nothing
candCancelNoOp(cand) == cand

\* the cancel function of a reconciler, and socket.cancel() of its stream
candCancel(cand) ==
  IF cand.isCancelled THEN cand
  ELSE [cand EXCEPT !.isCancelled = TRUE,
                    !.sock = IF cand.sock = "open" THEN "closed" ELSE @]

\* a router that passes every error on to the caller
RoutePassesAll(k, status, cs, cb) ==
  /\ cands' = cs
  /\ routerObs' = [RouterObs("error", k) EXCEPT
                     !.status = status, !.cb = cb, !.err = TRUE,
                     !.handle = streamCancel]
  /\ UNCHANGED <<endpointIndex, streamCancel>>

\* The router's cancel function, which every reconciler gets as its errCb:
\* the reconciler of endpoint k reports an error of the given status (0: the
\* error has none) with its own cancel function; cs is cands after the step of
\* the reconciler that reports, cb the endpoint whose reconciler invoked the
\* caller's callback in that step (0: none did).
Route(k, status, cs, cb) ==
  LET seen(op) == [RouterObs(op, k) EXCEPT !.status = status, !.cb = cb] IN
  IF routerCancelled
  THEN /\ cands' = cs
       /\ routerObs' = seen("ignored")
       /\ UNCHANGED <<endpointIndex, streamCancel>>
  ELSE IF status = 404 /\ endpointIndex < apiEndpoints
  THEN LET n == endpointIndex + 1 IN
       /\ cands' = runStreamFunc([cs EXCEPT ![k] = candCancel(@)], n)
       /\ endpointIndex' = n
       /\ streamCancel' = n
       /\ routerObs' = [seen("switch") EXCEPT !.started = n]
  ELSE IF errCbGiven
  THEN /\ cands' = cs
       /\ routerObs' = [seen("error") EXCEPT !.err = TRUE,
                                             !.handle = streamCancel]
       /\ UNCHANGED <<endpointIndex, streamCancel>>
  ELSE /\ cands' = cs
       /\ routerObs' = seen("swallowed")
       /\ UNCHANGED <<endpointIndex, streamCancel>>

notRouter == <<muxVars, streamVars, resultsVars, hookVars, keyVars>>

\* repeatStreamFunc is called with 1..MaxEndpoints endpoints, with or without
\* an errCb, and has started the first endpoint; a call of a method made by
\* repeatFactoryMethod awaits the first endpoint.
RouterInit ==
  /\ apiEndpoints \in EndpointIds
  /\ errCbGiven \in BOOLEAN
  /\ endpointIndex = 1
  /\ routerCancelled = FALSE
  /\ streamCancel = 1
  /\ cands = runStreamFunc([k \in EndpointIds |-> NoCand], 1)
  /\ routerObs = [RouterObs("start", 0) EXCEPT !.started = 1]
  /\ fmIndex = 1
  /\ fmOut = Pending

\* run of a reconciler, the request resolved: the snapshot goes to the
\* caller's callback unless the reconciler was cancelled, and the watch stream
\* is opened; what the callback throws goes to errCb
candFetched(k, thrown) ==
  /\ cands[k].pc = "await"
  /\ IF cands[k].isCancelled
     THEN /\ cands' = [cands EXCEPT ![k].pc = "returned"]
          /\ routerObs' = RouterObs("dropped", k)
          /\ UNCHANGED <<endpointIndex, streamCancel>>
     ELSE IF thrown # "nothing"
     THEN Route(k, StatusOf(thrown), [cands EXCEPT ![k].pc = "threw"], k)
     ELSE /\ cands' = [cands EXCEPT ![k].pc = "watching", ![k].sock = "open"]
          /\ routerObs' = [RouterObs("snapshot", k) EXCEPT !.cb = k]
          /\ UNCHANGED <<endpointIndex, streamCancel>>
  /\ UNCHANGED <<apiEndpoints, errCbGiven, routerCancelled, fmIndex, fmOut>>
  /\ UNCHANGED notRouter

\* run of a reconciler, the request rejected: the error goes to errCb
candFailed(k, status) ==
  /\ cands[k].pc = "await"
  /\ Route(k, status, [cands EXCEPT ![k].pc = "failed"], 0)
  /\ UNCHANGED <<apiEndpoints, errCbGiven, routerCancelled, fmIndex, fmOut>>
  /\ UNCHANGED notRouter

\* update of a reconciler: an event of its watch stream goes to the caller's
\* callback
candUpdate(k) ==
  /\ cands[k].sock = "open"
  /\ routerObs' = [RouterObs("update", k) EXCEPT !.cb = k]
  /\ UNCHANGED <<apiEndpoints, errCbGiven, endpointIndex, routerCancelled,
                 streamCancel, cands, fmIndex, fmOut>>
  /\ UNCHANGED notRouter

\* the watch stream of a reconciler closes: it is retried after a delay
\* unless the stream was cancelled
candClosed(k) ==
  /\ cands[k].sock = "open"
  /\ cands' = [cands EXCEPT ![k].sock = "closed",
                            ![k].timer = ~cands[k].isCancelled]
  /\ routerObs' = RouterObs("closed", k)
  /\ UNCHANGED <<apiEndpoints, errCbGiven, endpointIndex, routerCancelled,
                 streamCancel, fmIndex, fmOut>>
  /\ UNCHANGED notRouter

\* the reconnection timer of a watch stream fires: connect() opens a new
\* connection
candTimer(k) ==
  /\ cands[k].timer
  /\ cands' = [cands EXCEPT ![k].sock = "open", ![k].timer = FALSE]
  /\ routerObs' = RouterObs("reconnect", k)
  /\ UNCHANGED <<apiEndpoints, errCbGiven, endpointIndex, routerCancelled,
                 streamCancel, fmIndex, fmOut>>
  /\ UNCHANGED notRouter

\* the function repeatStreamFunc returns
routerCancel ==
  /\ endpointIndex > 0
  /\ routerCancelled' = TRUE
  /\ cands' = [cands EXCEPT ![streamCancel] = candCancel(@)]
  /\ routerObs' = RouterObs("cancel", 0)
  /\ UNCHANGED <<apiEndpoints, errCbGiven, endpointIndex, streamCancel,
                 fmIndex, fmOut>>
  /\ UNCHANGED notRouter

\* what an endpoint answers to a post, patch, put or delete
Answers == {200, 404, 500}

\* going on to the next endpoint whatever the error
ContinuesOnAnyError(i, status) == i # apiEndpoints

\* whether the method of repeatFactoryMethod goes on to the next endpoint
\* when endpoint i answered with the given status
Continues(i, status) == status = 404 /\ i # apiEndpoints

\* the method repeatFactoryMethod returns: the endpoint awaited answers
factoryAnswered(status) ==
  /\ fmIndex > 0
  /\ ~fmOut.ended
  /\ routerObs' = [RouterObs("answer", fmIndex) EXCEPT !.status = status]
  /\ IF status = 200
     THEN /\ fmOut' = [ended |-> TRUE, ok |-> TRUE, status |-> status,
                       by |-> fmIndex]
          /\ UNCHANGED fmIndex
     ELSE IF Continues(fmIndex, status)
     THEN /\ fmIndex' = fmIndex + 1
          /\ UNCHANGED fmOut
     ELSE /\ fmOut' = [ended |-> TRUE, ok |-> FALSE, status |-> status,
                       by |-> fmIndex]
          /\ UNCHANGED fmIndex
  /\ UNCHANGED <<apiEndpoints, errCbGiven, endpointIndex, routerCancelled,
                 streamCancel, cands>>
  /\ UNCHANGED notRouter

RouterNext ==
  \/ \E k \in EndpointIds, thrown \in Thrown : candFetched(k, thrown)
  \/ \E k \in EndpointIds, status \in ErrorStatuses : candFailed(k, status)
  \/ \E k \in EndpointIds : candUpdate(k)
  \/ \E k \in EndpointIds : candClosed(k)
  \/ \E k \in EndpointIds : candTimer(k)
  \/ routerCancel
  \/ \E status \in Answers : factoryAnswered(status)

InitRouter ==
  MuxInit /\ StreamIdle /\ ResultsIdle /\ RouterInit /\ HookIdle /\ KeyIdle

SpecRouter == InitRouter /\ [][RouterNext]_vars

\* ------------------------------------------------------------------------
\* Retrying stream: properties
\* ------------------------------------------------------------------------

LiveConns == {c \in DOMAIN conns : conns[c].sock \in {"CONNECTING", "OPEN"}}

\* C2: once cancel() has been called no socket is opened for the stream any
\* more, no socket of it is still connecting or open, and the data callback
\* is not invoked
C2_CancelIsFinal ==
  isCancelled => /\ ~streamObs.opened
                 /\ ~streamObs.cb
                 /\ LiveConns = {}

\* ------------------------------------------------------------------------
\* WebSocketManager: properties
\* ------------------------------------------------------------------------

\* the subscribe calls that returned their unsubscribe function
Done == {i \in CallIds : calls[i].pc = "done"}

\* the frames of the given type among those the last step sent
SentOf(type) == {n \in DOMAIN obs.sent : obs.sent[n].frame.type = type}

\* C1: at most one multiplexer socket is connecting or open at any time
C1_AtMostOneSocket == Cardinality(Live) <= 1

\* C3: a key is in the registry exactly when a callback is registered under
\* it (no key maps to an empty set, every callback subscribed and not
\* unsubscribed is under its key), and the unsubscribe that removes the last
\* callback of a key removes the key
C3_RegistryHasNoEmptyKey ==
  /\ \A k \in DOMAIN listeners : listeners[k] # <<>>
  /\ \A j \in CallIds : (calls[j].pc # "idle" /\ ~calls[j].unsub) =>
        /\ KeyOf(calls[j].t) \in DOMAIN listeners
        /\ j \in Range(listeners[KeyOf(calls[j].t)])
  /\ (obs.op = "unsubscribe" /\ obs.removed) => obs.key \notin DOMAIN listeners
  /\ obs.op = "unsubscribe" =>
       \A k \in DOMAIN listeners : obs.call \notin Range(listeners[k])

\* C3 witness: an unsubscribe has just removed the last callback of a key
\* while another key stays registered
C3_Witness ==
  /\ obs.op = "unsubscribe"
  /\ obs.removed
  /\ DOMAIN listeners # {}

\* the callbacks registered under key k and not unsubscribed
Registered(k) ==
  {j \in CallIds : calls[j].pc # "idle" /\ ~calls[j].unsub /\ KeyOf(calls[j].t) = k}

\* C4: an unsubscribe that leaves another subscriber of its key closes no
\* socket and sends no CLOSE frame, and a later data frame for the key goes
\* to the remaining subscribers, never to a removed one
C4_OtherSubscriberKeepsStream ==
  /\ (obs.op = "unsubscribe" /\ Registered(obs.key) \cap Done # {}) =>
       /\ obs.sent = <<>>
       /\ obs.closed = 0
       /\ ~obs.removed
  /\ (obs.op = "message" /\ obs.frame = "DATA" /\ obs.key \notin gated
        /\ Registered(obs.key) # {}) =>
       /\ obs.delivered # <<>>
       /\ Range(obs.delivered) \subseteq Registered(obs.key)

\* C4 witness: of two subscribers of a key one has unsubscribed, and a data
\* frame for the key has just been delivered to the other
C4_Witness ==
  /\ obs.op = "message"
  /\ obs.frame = "DATA"
  /\ \E i, j \in Done :
       /\ calls[i].unsub /\ ~calls[j].unsub
       /\ KeyOf(calls[i].t) = obs.key /\ KeyOf(calls[j].t) = obs.key
       /\ obs.delivered = <<j>>

\* C5: the unsubscribe that removes the last callback of a key sends a CLOSE
\* frame with the clusterId, path and query of that subscription
C5_LastUnsubscribeSendsClose ==
  (obs.op = "unsubscribe" /\ obs.removed) =>
     \E n \in DOMAIN obs.sent :
        obs.sent[n].frame = Frame("CLOSE", calls[obs.call].t.clusterId,
                                  calls[obs.call].t.path, calls[obs.call].t.query)

\* C6: an unsubscribe that empties the registry leaves no socket connecting
\* or open and no shared socket reference, and a subscribe made while the
\* registry is empty opens a new socket
C6_EmptyRegistryClosesSocket ==
  /\ (obs.op = "unsubscribe" /\ DOMAIN listeners = {}) =>
       (socket = 0 /\ Live = {})
  /\ (obs.op = "subscribe" /\ listeners = (obs.key :> <<obs.call>>)) =>
       obs.created # 0

C8_CompletionGating ==
  (obs.op = "message" /\ obs.key \in gated) => obs.delivered = <<>>

\* C8 witness: a data frame for a gated key with a subscriber was dropped
C8_Witness ==
  /\ obs.op = "message"
  /\ obs.frame = "DATA"
  /\ obs.key \in gated
  /\ Registered(obs.key) \cap Done # {}
  /\ obs.delivered = <<>>

\* C9: a COMPLETE frame reaches no callback, marks its key completed and is
\* answered at once with a CLOSE frame for that key
C9_CompleteEchoesClose ==
  (obs.op = "message" /\ obs.frame = "COMPLETE") =>
     /\ obs.delivered = <<>>
     /\ obs.key \in completedPaths
     /\ Len(obs.sent) = 1
     /\ obs.sent[1].frame.type = "CLOSE"
     /\ KeyOf(obs.sent[1].frame) = obs.key

\* C10: a key without subscribers is not in the completed-path set
C10_NoCompletedKeyWithoutSubscriber ==
  completedPaths \subseteq DOMAIN listeners

\* C11: a close event of a socket clears the shared socket reference, and
\* schedules one reconnect timer if the registry holds a key at that moment
\* and none if it holds no key
C11_CloseClearsAndSchedules ==
  [][(\E s \in SockIds : rs[s] # "CLOSED" /\ rs'[s] = "CLOSED") =>
       /\ socket' = 0
       /\ timers' = IF DOMAIN listeners # {} THEN timers + 1 ELSE timers]_vars

\* C11 witness: a socket has closed while a subscriber was registered, the
\* reference is cleared and the reconnect timer is pending
C11_Witness ==
  /\ \E s \in SockIds : rs[s] = "CLOSED"
  /\ socket = 0
  /\ timers > 0
  /\ DOMAIN listeners # {}

RECURSIVE SumReqs(_)
\* the REQUEST frames sent by the calls of the set S
SumReqs(S) ==
  IF S = {} THEN 0
  ELSE LET i == CHOOSE j \in S : TRUE IN calls[i].reqs + SumReqs(S \ {i})

\* C12: a REQUEST frame is sent only by the subscribe call it belongs to: the
\* step that creates or opens a socket for a reconnection sends nothing, and
\* the REQUEST frames sent never outnumber the subscribe calls made
C12_ReconnectSendsNoRequest ==
  /\ \A n \in DOMAIN obs.sent :
       obs.sent[n].frame.type = "REQUEST" =>
         (obs.op = "request" /\ obs.sent[n].frame = RequestOf(obs.call))
  /\ obs.op = "event" => obs.sent = <<>>
  /\ SumReqs(CallIds) <= Cardinality({i \in CallIds : calls[i].pc # "idle"})

\* C12 witness: a subscription made before a drop is still registered, the
\* socket of the reconnection is open, and nothing was requested on it
C12_Witness ==
  /\ IsOpen(socket)
  /\ requested[socket] = {}
  /\ \E i \in Done : ~calls[i].unsub
  /\ \A i \in CallIds : calls[i].pc \in {"idle", "done"}

\* C13: a data frame for a key that is not completed reaches every callback
\* registered for the key, whichever callback throws
C13_EveryCallbackGetsTheFrame ==
  (obs.op = "message" /\ obs.frame = "DATA" /\ obs.key \notin completedPaths
     /\ obs.key \in DOMAIN listeners) =>
    Range(obs.delivered) = Range(listeners[obs.key])

\* ------------------------------------------------------------------------
\* streamResults: properties
\* ------------------------------------------------------------------------

\* the stored version of uid u, as update() reads it
StoredVersion(r, u) == parseInt(r[u].resourceVersion)

\* C14: a MODIFIED event for an item of the collection never lowers the
\* stored version of the item, and changes the collection only if its version
\* is greater than the stored one
C14_ModifiedIsMonotonic ==
  [][(resObs'.op = "update" /\ resObs'.ev.type = "MODIFIED"
        /\ resObs'.ev.uid \in DOMAIN results) =>
       /\ resObs'.ev.uid \in DOMAIN results'
       /\ ~Less(StoredVersion(results', resObs'.ev.uid),
                StoredVersion(results, resObs'.ev.uid))
       /\ results' # results =>
            Less(StoredVersion(results, resObs'.ev.uid),
                 parseInt(resObs'.ev.resourceVersion))]_vars

\* C14 witness: a MODIFIED event with a version below the stored one has been
\* received and the item kept its version
C14_Witness ==
  /\ resObs.op = "update"
  /\ resObs.ev.type = "MODIFIED"
  /\ resObs.ev.uid \in DOMAIN results
  /\ Less(parseInt(resObs.ev.resourceVersion),
          StoredVersion(results, resObs.ev.uid))

\* C15: whatever the events, the version stored for a uid never decreases
\* while the uid stays in the collection
C15_StoredVersionNeverDecreases ==
  [][\A u \in DOMAIN results \cap DOMAIN results' :
       ~Less(StoredVersion(results', u), StoredVersion(results, u))]_vars

\* C16: an event that is rejected (ERROR, unknown type, MODIFIED with a
\* version below the stored one) does not invoke the update callback
C16_RejectedEventPushesNothing ==
  (/\ resObs.op = "update"
   /\ \/ resObs.ev.type \in {"ERROR", "BOOKMARK"}
      \/ /\ resObs.ev.type = "MODIFIED"
         /\ resObs.ev.uid \in DOMAIN results
         /\ Less(parseInt(resObs.ev.resourceVersion),
                 StoredVersion(results, resObs.ev.uid)))
    => ~resObs.cb

\* C17: the only fetch is the one issued on construction; the stream is made
\* in the step that stores and pushes the snapshot, with the snapshot's
\* version marker, which it keeps; the collection changes only by the snapshot
\* and, after it, by watch events
C17_SnapshotThenWatch ==
  /\ (resObs.op = "request" /\ runPc = "await" /\ conns = <<>>)
  /\ [][/\ resObs'.op = "request" => resObs.op = "request"
        /\ (conns = <<>> /\ conns' # <<>>) =>
             /\ runPc = "await" /\ runPc' = "watching"
             /\ resObs'.op = "snapshot" /\ resObs'.cb
             /\ watchUrl' = resObs'.marker
        /\ conns # <<>> => watchUrl' = watchUrl
        /\ results' # results =>
             \/ runPc = "await" /\ resObs'.op = "snapshot"
             \/ runPc = "watching" /\ resObs'.op = "update"]_vars

\* C17 witness: the snapshot has just been pushed and the watch stream made
\* from its version marker
C17_Witness ==
  /\ runPc = "watching"
  /\ resObs.op = "snapshot"
  /\ resObs.cb
  /\ conns # <<>>
  /\ watchUrl = resObs.marker
  /\ DOMAIN results # {}

\* C18: when the fetch fails the error callback is invoked in that step and
\* in no later one, no stream is ever made and no fetch is issued again
C18_FailedFetchIsFinal ==
  /\ [](runPc = "failed" => (conns = <<>> /\ results = <<>>))
  /\ [][/\ (runPc = "await" /\ runPc' = "failed") => resObs'.err
        /\ (resObs'.err /\ resObs' # resObs) =>
             (runPc = "await" /\ runPc' \in {"failed", "threw"})
        /\ resObs'.op = "request" => resObs' = resObs
        /\ runPc = "failed" => runPc' = "failed"]_vars

\* C18 witness: the fetch has failed and the error callback was invoked
C18_Witness ==
  /\ runPc = "failed"
  /\ resObs.op = "error"
  /\ resObs.err

\* C19: once the cancel handle of streamResults has been invoked neither
\* callback is invoked and no socket of the stream is connecting or open
C19_ResultsCancelIsFinal ==
  resultsCancelled => /\ ~resObs.cb
                      /\ ~resObs.err
                      /\ LiveConns = {}

\* C20: invoking an unsubscribe function that was invoked before sends no
\* frame, closes no socket and leaves the manager as it is
C20_RepeatedUnsubscribeDoesNothing ==
  [][(obs'.op = "unsubscribe" /\ calls[obs'.call].unsub) =>
       /\ obs'.sent = <<>>
       /\ obs'.closed = 0
       /\ UNCHANGED <<socket, connecting, listeners, completedPaths, rs>>]_vars

\* ------------------------------------------------------------------------
\* Retrying stream: policy and liveness
\* ------------------------------------------------------------------------

\* C25: the close event of a connection that was not closing invokes the
\* failure callback if one was supplied, and schedules one reconnect if
\* reconnection is enabled and none if it is not
C25_UnexpectedCloseRetriesIfEnabled ==
  [][\A c \in DOMAIN conns :
       (/\ conns[c].sock # "CLOSED" /\ ~conns[c].isClosing
        /\ Len(conns') = Len(conns) /\ conns'[c].sock = "CLOSED") =>
         /\ streamObs'.fail = streamArgs.failCb
         /\ streamTimers' = IF reconnectOnFailure THEN streamTimers + 1
                             ELSE streamTimers]_vars

\* a connection that failed: its socket was not made, or has closed
Failed(n) == conns[n].sock \in {"null", "CLOSED"}

\* C26: with reconnection enabled, the failure of the latest connection of a
\* stream that is not cancelled is followed by a new connection
C26_FailureIsRetried ==
  \A n \in 1..(MaxConns - 1) :
    [](( /\ Len(conns) = n /\ Failed(n)
         /\ ~isCancelled /\ reconnectOnFailure)
         => <>(isCancelled \/ Len(conns) > n))

\* ------------------------------------------------------------------------
\* streamResults: rejected events, cancel before the snapshot
\* ------------------------------------------------------------------------

\* the last step was update() for an event of the given types
Updated(types) == resObs.op = "update" /\ resObs.ev.type \in types

C29_ErrorChangesNothing ==
  [][(resObs'.op = "update" /\ resObs'.ev.type \in {"ERROR", "BOOKMARK"}) =>
       results' = results]_vars

\* C29 witness: an ERROR or unknown event has been received for a uid of the
\* collection, which still holds it
C29_Witness ==
  /\ Updated({"ERROR", "BOOKMARK"})
  /\ resObs.ev.uid \in DOMAIN results

\* C30: when the cancel handle was invoked before the fetch resolved, the
\* fetch stores nothing, invokes no callback and makes no stream, then and
\* ever after
C30_CancelBeforeSnapshot ==
  /\ [](runPc = "returned" =>
          /\ resultsCancelled
          /\ results = <<>> /\ conns = <<>> /\ watchUrl = <<>>
          /\ ~resObs.cb /\ ~resObs.err)
  /\ [][(resultsCancelled /\ runPc = "await" /\ resObs'.op = "snapshot")
          => runPc' = "returned"]_vars

\* C30 witness: the fetch has resolved after the cancel
C30_Witness ==
  /\ runPc = "returned"
  /\ resObs.op = "snapshot"
  /\ resultsCancelled

\* ------------------------------------------------------------------------
\* streamResult: properties
\* ------------------------------------------------------------------------

\* C27: the stream is made in the step that passes the fetched object to the
\* callback; a watch event is passed on only after that, in the step it
\* arrives in, as the object it carries, whatever its type and version
C27_ObjectsPassedDirectly ==
  [][/\ (conns = <<>> /\ conns' # <<>>) =>
          (runPc = "await" /\ resObs'.op = "item" /\ resObs'.cb)
     /\ (streamObs'.op = "message" /\ resObs'.op \in {"object", "dropped"}) =>
          /\ runPc = "watching"
          /\ streamObs'.cb = resObs'.cb
          /\ resObs'.cb =>
               /\ resObs'.op = "object"
               /\ resObs'.item = [uid |-> resObs'.ev.uid,
                                  resourceVersion |->
                                    resObs'.ev.resourceVersion]
     /\ resObs'.op = "object" => streamObs'.op = "message" \/ resObs' = resObs
    ]_vars

\* C27 witness: a MODIFIED event that carries no version has been passed to
\* the callback
C27_Witness ==
  /\ resObs.op = "object"
  /\ resObs.cb
  /\ resObs.ev.type = "MODIFIED"
  /\ resObs.ev.resourceVersion = <<>>
  /\ resObs.item.uid = resObs.ev.uid

\* ------------------------------------------------------------------------
\* repeatStreamFunc and repeatFactoryMethod: properties
\* ------------------------------------------------------------------------

\* the endpoints whose reconciler was started
Started == {k \in EndpointIds : cands[k].pc # "idle"}

\* the endpoints whose reconciler is active: not cancelled, and it awaits its
\* request or has a watch stream that is open or will be reopened
Active == {k \in EndpointIds :
             /\ ~cands[k].isCancelled
             /\ \/ cands[k].pc = "await"
                \/ cands[k].sock = "open"
                \/ cands[k].timer}

\* a step in which the reconciler of endpoint k reports an error of the given
\* status to the router
Reports(k, status) ==
  /\ cands[k].pc = "await"
  /\ cands'[k].pc \in {"failed", "threw"}
  /\ routerObs'.from = k
  /\ routerObs'.status = status

\* C21: the router starts with the first endpoint; the endpoints started are
\* always the first endpointIndex of the list, so none is skipped; a started
\* reconciler is never started again and a step starts at most the next
\* endpoint; and when an active reconciler reports a 404 while endpoints
\* remain, that step cancels it and starts the next endpoint.
C21_FailoverInListOrder ==
  /\ endpointIndex = 1 /\ Started = {1}
  /\ [](Started = 1..endpointIndex /\ endpointIndex <= apiEndpoints)
  /\ [][/\ endpointIndex' \in {endpointIndex, endpointIndex + 1}
        /\ \A k \in EndpointIds :
             /\ (k \in Started /\ cands[k].pc # "await")
                  => cands'[k].pc # "await"
             /\ (k \in Active /\ Reports(k, 404)
                 /\ endpointIndex < apiEndpoints)
                  => /\ k = endpointIndex
                     /\ cands'[k].isCancelled
                     /\ endpointIndex' = endpointIndex + 1
                     /\ cands'[endpointIndex'].pc = "await"
                     /\ streamCancel' = endpointIndex']_vars

\* the first of several endpoints answered 404 and the second took over
C21_Witness ==
  /\ apiEndpoints >= 2
  /\ endpointIndex = 2
  /\ cands[1].pc = "failed" /\ cands[1].isCancelled
  /\ cands[2].pc = "watching"
  /\ routerObs.op = "update" /\ routerObs.cb = 2

\* C22: at every moment at most one endpoint's reconciler is active; the
\* step that starts the next endpoint leaves the previous one cancelled and
\* without a stream or a timer, as every endpoint before the current one is;
\* and the caller's callback is only ever invoked by the reconciler of the
\* endpoint started last, so no two endpoints deliver side by side.
C22_OneActiveEndpoint ==
  /\ [](/\ Cardinality(Active) <= 1
        /\ \A k \in Started :
             k < endpointIndex
               => /\ cands[k].isCancelled
                  /\ cands[k].pc \in {"failed", "threw"}
                  /\ cands[k].sock = "none"
                  /\ ~cands[k].timer)
  /\ [][/\ endpointIndex' # endpointIndex
           => /\ cands'[endpointIndex].isCancelled
              /\ endpointIndex \notin Active'
              /\ Active' \subseteq {endpointIndex'}
        /\ routerObs'.cb \in {0, endpointIndex}]_vars

\* the second endpoint delivers an update after the first was given up
C22_Witness ==
  /\ endpointIndex = 2
  /\ cands[1].isCancelled
  /\ Active = {2}
  /\ cands[2].sock = "open"
  /\ routerObs.op = "snapshot" /\ routerObs.cb = 2

\* C23: the caller's errCb is invoked only in a step in which the
\* reconciler of the current endpoint, not cancelled, reports an error, and
\* only if that error is not a 404 or no endpoint is left to try; a 404
\* reported while endpoints are left is not passed on; the error is passed
\* together with the cancel function of the current endpoint's reconciler;
\* and once the current endpoint's reconciler has ended with an error that
\* started no other endpoint, no endpoint is started any more.
C23_ErrorsPassedToCaller ==
  [][/\ routerObs'.err
        => /\ errCbGiven /\ ~routerCancelled
           /\ Reports(endpointIndex, routerObs'.status)
           /\ endpointIndex \in Active
           /\ routerObs'.status # 404 \/ endpointIndex = apiEndpoints
           /\ routerObs'.handle = endpointIndex
           /\ routerObs'.handle = streamCancel
           /\ endpointIndex' = endpointIndex /\ Started' = Started
     /\ \A k \in EndpointIds :
          (Reports(k, 404) /\ endpointIndex < apiEndpoints)
            => ~routerObs'.err
     /\ cands[endpointIndex].pc \in {"failed", "threw"}
        => /\ endpointIndex' = endpointIndex /\ Started' = Started
           /\ cands'[endpointIndex].pc = cands[endpointIndex].pc
           /\ ~routerObs'.err]_vars

\* the last of several endpoints answered 404 and the caller was told
C23_Witness ==
  /\ apiEndpoints >= 2
  /\ endpointIndex = apiEndpoints
  /\ cands[endpointIndex].pc = "failed"
  /\ routerObs.op = "error" /\ routerObs.err
  /\ routerObs.status = 404 /\ routerObs.handle = endpointIndex

\* C24: a call of a non-streaming method starts with the first endpoint and
\* awaits one endpoint at a time, in list order; an answer other than 404
\* ends the call with that endpoint's result or error; a 404 moves on to the
\* next endpoint, and a 404 of the last endpoint ends the call with that
\* error; once the call has ended no endpoint is invoked.
C24_FirstAnswerThatIsNot404 ==
  /\ fmIndex = 1 /\ ~fmOut.ended
  /\ [](/\ fmIndex \in 1..apiEndpoints
        /\ fmOut.ended => fmOut.by = fmIndex
        /\ (fmOut.ended /\ fmOut.status = 404) => fmOut.by = apiEndpoints)
  /\ [][/\ fmIndex' \in {fmIndex, fmIndex + 1}
        /\ fmOut.ended
           => /\ fmOut' = fmOut /\ fmIndex' = fmIndex
              /\ routerObs'.op # "answer"
        /\ routerObs'.op = "answer"
           => LET status == routerObs'.status IN
              /\ routerObs'.from = fmIndex
              /\ status # 404
                 => /\ fmIndex' = fmIndex
                    /\ fmOut' = [ended |-> TRUE, ok |-> status = 200,
                                 status |-> status, by |-> fmIndex]
              /\ (status = 404 /\ fmIndex < apiEndpoints)
                 => fmIndex' = fmIndex + 1 /\ ~fmOut'.ended
              /\ (status = 404 /\ fmIndex = apiEndpoints)
                 => /\ fmIndex' = fmIndex
                    /\ fmOut' = [ended |-> TRUE, ok |-> FALSE,
                                 status |-> 404, by |-> fmIndex]
        /\ routerObs'.op # "answer"
           => fmOut' = fmOut /\ fmIndex' = fmIndex]_vars

\* the first endpoint answered 404 and the second one's error ended the call
C24_Witness ==
  /\ apiEndpoints = 3
  /\ fmOut.ended /\ ~fmOut.ok
  /\ fmOut.status = 500 /\ fmOut.by = 2
  /\ routerObs.op = "answer"

\* ------------------------------------------------------------------------
\* WebSocketManager: the registry and the socket
\* ------------------------------------------------------------------------

\* the subscribe calls in progress: called and not yet resolved or rejected
InProgress == {i \in CallIds : calls[i].pc \in {"fast", "poll", "opening"}}

\* C32: whenever no subscribe call is in progress, a socket of the manager
\* that is connecting or open implies that the registry holds a subscriber.
C32_LiveSocketHasSubscriber ==
  (InProgress = {} /\ Live # {}) => DOMAIN listeners # {}

\* the callback of subscribe call i is in the registry
Listed(i) == \E k \in DOMAIN listeners : i \in Range(listeners[k])

\* C33: the callback of a subscribe call whose promise rejected, because the
\* connection attempt failed, is not in the registry.
C33_RejectedSubscribeLeavesNothing ==
  \A i \in CallIds : calls[i].pc = "rejected" => ~Listed(i)

C34_CleanupRemovesCallback ==
  \A i \in CallIds : [](i \in cleanedUp => <>(~Listed(i)))

\* ------------------------------------------------------------------------
\* streamResults: MODIFIED for a uid that is not stored
\* ------------------------------------------------------------------------

\* C37: a MODIFIED event for a uid that is not in the collection stores the
\* object of the event under that uid, whatever its version; a DELETED event
\* takes its uid out of the collection, so that a later MODIFIED event for
\* that uid puts it back.
C37_ModifiedInsertsUnknownUid ==
  [][/\ (resObs'.op = "update" /\ resObs'.ev.type = "MODIFIED"
         /\ resObs'.ev.uid \notin DOMAIN results)
          => /\ DOMAIN results' = DOMAIN results \cup {resObs'.ev.uid}
             /\ results'[resObs'.ev.uid] = Object(resObs'.ev)
             /\ \A u \in DOMAIN results : results'[u] = results[u]
     /\ (resObs'.op = "update" /\ resObs'.ev.type = "DELETED")
          => DOMAIN results' = DOMAIN results \ {resObs'.ev.uid}]_vars

\* C37 witness: the collection holds an object that a MODIFIED event put
\* there although it has no version, which only the insertion does
C37_Witness ==
  /\ Updated({"MODIFIED"})
  /\ resObs.ev.resourceVersion = <<>>
  /\ resObs.ev.uid \in DOMAIN results
  /\ results[resObs.ev.uid] = Object(resObs.ev)

\* C36: once the function repeatStreamFunc returned has been invoked, no
\* endpoint is started, no error is passed to the caller's errCb, and no
\* reconciler has an open watch stream.
C36_RouterCancelIsFinal ==
  /\ [](routerCancelled => \A k \in EndpointIds : cands[k].sock # "open")
  /\ [][routerCancelled
          => /\ endpointIndex' = endpointIndex /\ Started' = Started
             /\ ~routerObs'.err]_vars

\* ------------------------------------------------------------------------
\* createKey: properties
\* ------------------------------------------------------------------------

\* C31: two triples that differ in a component get different keys, and the
\* clusterId that handleUnsubscribe takes out of a key, key.split(':')[0],
\* is the clusterId the key was made of.
C31_KeyIsInjective ==
  keyOut # <<>> =>
    /\ keyArgs[1] # keyArgs[2] => keyOut[1] # keyOut[2]
    /\ \A n \in 1..2 : SplitFirst(keyOut[n]) = keyArgs[n].clusterId

====
